---- MODULE Spec2Model ----
(***************************************************************************)
(* Bounded, incremental, metadata-only repository index.                   *)
(*   index_build.py : scan a tree, reuse or recompute records, write       *)
(*                    manifest.json / state.json / run.json and the record *)
(*                    files (files.jsonl or shards/<group>.jsonl)          *)
(*   index_query.py : read the manifest, resolve record sources, filter,   *)
(*                    sort, truncate, render                               *)
(* Strings that the code takes apart (paths, directory names, extensions)  *)
(* are sequences of one-character strings; Str turns them into a string    *)
(* for the lookups in the static tables.                                   *)
(***************************************************************************)
EXTENDS Integers, Sequences, FiniteSets, TLC

(***************************************************************************)
(* Characters and strings                                                  *)
(***************************************************************************)

\* code point of the characters used by the model's paths (Python ord)
Ord(c) ==
  CASE c = " " -> 32
    [] c = "." -> 46
    [] c = "/" -> 47
    [] c = "B" -> 66
    [] c = "P" -> 80
    [] c = "Y" -> 89
    [] c = "_" -> 95
    [] c = "a" -> 97
    [] c = "b" -> 98
    [] c = "c" -> 99
    [] c = "g" -> 103
    [] c = "i" -> 105
    [] c = "j" -> 106
    [] c = "l" -> 108
    [] c = "m" -> 109
    [] c = "n" -> 110
    [] c = "o" -> 111
    [] c = "p" -> 112
    [] c = "r" -> 114
    [] c = "s" -> 115
    [] c = "t" -> 116
    [] c = "y" -> 121
    [] OTHER -> 0

\* str.lower on one character
Lower(c) ==
  CASE c = "B" -> "b"
    [] c = "P" -> "p"
    [] c = "Y" -> "y"
    [] OTHER -> c

\* str.isalnum on one character
IsAlnum(c) == (Ord(c) >= 65 /\ Ord(c) <= 90) \/ (Ord(c) >= 97 /\ Ord(c) <= 122)

LowerSeq(s) == [i \in 1..Len(s) |-> Lower(s[i])]

RECURSIVE Str(_)
Str(s) == IF s = <<>> THEN "" ELSE Head(s) \o Str(Tail(s))

\* Python's str ordering: lexicographic by code point, a proper prefix first
RECURSIVE StrLess(_, _)
StrLess(a, b) ==
  IF a = <<>> THEN b # <<>>
  ELSE IF b = <<>> THEN FALSE
  ELSE IF Ord(Head(a)) # Ord(Head(b)) THEN Ord(Head(a)) < Ord(Head(b))
  ELSE StrLess(Tail(a), Tail(b))

\* sorted(S) for a set of strings
RECURSIVE Sorted(_)
Sorted(S) ==
  IF S = {} THEN <<>>
  ELSE LET m == CHOOSE x \in S : \A y \in S \ {x} : StrLess(x, y)
       IN <<m>> \o Sorted(S \ {m})

\* str.split(sep) for a one-character separator
RECURSIVE Split(_, _)
Split(s, sep) ==
  IF \A i \in 1..Len(s) : s[i] # sep THEN <<s>>
  ELSE LET k == CHOOSE i \in 1..Len(s) : s[i] = sep /\ \A j \in 1..(i-1) : s[j] # sep
       IN <<SubSeq(s, 1, k-1)>> \o Split(SubSeq(s, k+1, Len(s)), sep)

\* "/".join(parts)
RECURSIVE Join(_)
Join(parts) ==
  IF parts = <<>> THEN <<>>
  ELSE IF Len(parts) = 1 THEN parts[1]
  ELSE parts[1] \o <<"/">> \o Join(Tail(parts))

\* str.strip(chars)
RECURSIVE LStrip(_, _)
LStrip(s, chars) ==
  IF s # <<>> /\ Head(s) \in chars THEN LStrip(Tail(s), chars) ELSE s

RECURSIVE RStrip(_, _)
RStrip(s, chars) ==
  IF s # <<>> /\ s[Len(s)] \in chars THEN RStrip(SubSeq(s, 1, Len(s)-1), chars) ELSE s

Strip(s, chars) == RStrip(LStrip(s, chars), chars)

\* needle in haystack
Contains(hay, needle) ==
  \E i \in 0..(Len(hay) - Len(needle)) : SubSeq(hay, i+1, i+Len(needle)) = needle

\* pathlib.PurePath(rel).suffix
Suffix(rel) ==
  LET parts == Split(rel, "/")
      name  == parts[Len(parts)]
      dots  == {i \in 1..Len(name) : name[i] = "."}
  IN IF dots = {} THEN <<>>
     ELSE LET i == CHOOSE d \in dots : \A e \in dots : e <= d
          IN IF i > 1 /\ i < Len(name) THEN SubSeq(name, i, Len(name)) ELSE <<>>

(***************************************************************************)
(* Static tables of index_build.py                                         *)
(***************************************************************************)
SCHEMA_VERSION == 1

TEXT_EXTS ==
  {".c", ".cc", ".cfg", ".cpp", ".cs", ".css", ".csv", ".go", ".h", ".hpp",
   ".html", ".ini", ".java", ".js", ".json", ".jsonl", ".kt", ".m", ".md",
   ".php", ".py", ".rb", ".rs", ".sh", ".sql", ".swift", ".toml", ".ts",
   ".tsx", ".txt", ".xml", ".yaml", ".yml"}

BINARY_EXTS ==
  {".7z", ".a", ".bin", ".bmp", ".class", ".dll", ".dylib", ".exe", ".gif",
   ".gz", ".ico", ".jar", ".jpeg", ".jpg", ".lib", ".mp3", ".mp4", ".o",
   ".obj", ".pdf", ".png", ".pyc", ".so", ".svgz", ".tar", ".ttf", ".wav",
   ".webm", ".webp", ".woff", ".woff2", ".zip"}

LANG_BY_EXT ==
  ".c" :> "c" @@ ".cc" :> "cpp" @@ ".cpp" :> "cpp" @@ ".cs" :> "csharp" @@
  ".css" :> "css" @@ ".go" :> "go" @@ ".h" :> "c" @@ ".hpp" :> "cpp" @@
  ".html" :> "html" @@ ".java" :> "java" @@ ".js" :> "javascript" @@
  ".json" :> "json" @@ ".kt" :> "kotlin" @@ ".md" :> "markdown" @@
  ".php" :> "php" @@ ".py" :> "python" @@ ".rb" :> "ruby" @@ ".rs" :> "rust" @@
  ".sh" :> "shell" @@ ".sql" :> "sql" @@ ".swift" :> "swift" @@
  ".toml" :> "toml" @@ ".ts" :> "typescript" @@ ".tsx" :> "typescript" @@
  ".txt" :> "text" @@ ".xml" :> "xml" @@ ".yaml" :> "yaml" @@ ".yml" :> "yaml"

guess_language(ext) == IF ext \in DOMAIN LANG_BY_EXT THEN LANG_BY_EXT[ext] ELSE "unknown"

ROOT_SENTINEL == <<"_", "_", "r", "o", "o", "t", "_", "_">>

top_level_for(rel_path) ==
  LET parts == Split(rel_path, "/")
  IN IF Len(parts) = 1 THEN ROOT_SENTINEL ELSE parts[1]

JSONL == <<".", "j", "s", "o", "n", "l">>

sanitize_shard_name(top_level) ==
  LET mapped == [i \in 1..Len(top_level) |->
                   IF IsAlnum(top_level[i]) \/ top_level[i] \in {"-", "_", "."}
                   THEN top_level[i] ELSE "_"]
      safe   == Strip(mapped, {".", "_"})
  IN (IF safe = <<>> THEN <<"r", "o", "o", "t">> ELSE safe) \o JSONL


(***************************************************************************)
(* Bounds of the model                                                     *)
(***************************************************************************)
MaxBuilds == 2      \* builds run in one behaviour
MaxEvents == 1      \* what the environment does in one behaviour: changes to the
                    \* tree or to state.json between builds, OSErrors (stat,
                    \* scandir, open) during a build, the deadline passing

(***************************************************************************)
(* The repository tree                                                     *)
(***************************************************************************)
PR == <<"r">>
PM == <<"a", " ", "b", "/", "m", ".", "P", "Y">>
PN == <<"a", "_", "b", "/", "n">>
Paths == {PR, PM, PN}

GIT == <<".", "g", "i", "t">>
\* a directory one level down that carries the name of the index directory
NESTED == <<"a", "_", "b", "/", ".", "c", "o", "d", "e", "x", "-", "i", "n", "d", "e", "x">>
LINK == <<"l", "n">>
\* entries that are always there: an excluded directory with one file in it
\* at the root and another one level down, and a symbolic link in the root
\* that points at a directory with one file in it
StaticDirs == {GIT, NESTED}
StaticFiles == {GIT \o <<"/", "c">>, NESTED \o <<"/", "c">>, LINK \o <<"/", "c">>}
Symlinks == {LINK}

DEFAULT_EXCLUDES ==
  {".git", "node_modules", ".venv", "venv", "__pycache__", "dist", "build",
   "target", ".cache", ".codex-index"}

INDEX_DIR_NAME == ".codex-index"

NoFile == [present |-> FALSE, size |-> 0, mtime |-> 0, nul |-> FALSE]
File(size, mtime, nul) == [present |-> TRUE, size |-> size, mtime |-> mtime, nul |-> nul]

Sizes == {0, 2000}
\* --max-files-per-run and --max-read-bytes of a build
Budgets == {<<12000, 4096>>, <<1, 4096>>, <<12000, 1024>>}

\* the content of a path: the file at PN starts with a NUL byte when it has bytes
HasNul(p, size) == p = PN /\ size > 0

Parent(p) == LET parts == Split(p, "/") IN Join(SubSeq(parts, 1, Len(parts) - 1))
Name(p) == LET parts == Split(p, "/") IN parts[Len(parts)]

\* st_ino of a path; st_dev is 1 for the whole tree
Ino(p) == CASE p = PR -> 11 [] p = PM -> 12 [] p = PN -> 13 [] OTHER -> 10

VARIABLES
  fs,                \* Paths -> file (size, mtime, content) or NoFile
  stateFile,         \* state.json
  manifest,          \* manifest.json
  runReport,         \* run.json
  filesJsonl,        \* files.jsonl
  shards,            \* shards/<name> -> lines, for the segment files that exist
  pc,                \* "idle" | "scan" | "final" | "done"; "flush" and "killed"
                     \* where the write phase is taken file by file
  args,              \* argparse.Namespace of the running build
  previous_entries, fallback_rebuild, fallback_reason,
  counters, new_entries, stop_reason, partial,
  stack, child_files,    \* iter_repo_files: directories to visit, files to yield
  prior,             \* state.json as it was when the build started
  log,               \* what the run met: OSErrors, reused paths, the last step
  builds, events,
  q,                 \* the query that was run: its arguments and what it answered
  w                  \* the workstream state file and the answer of the last command on it

vars == <<fs, stateFile, manifest, runReport, filesJsonl, shards, pc, args,
          previous_entries, fallback_rebuild, fallback_reason, counters,
          new_entries, stop_reason, partial, stack, child_files, prior, log,
          builds, events, q, w>>

disk == <<stateFile, manifest, runReport, filesJsonl, shards>>
locals == <<args, previous_entries, fallback_rebuild, fallback_reason, counters,
            new_entries, stop_reason, partial, stack, child_files, prior, log>>

(***************************************************************************)
(* JSON artifacts                                                          *)
(***************************************************************************)
EmptyMap == [k \in {} |-> 0]

\* dict(a); a.update(b)
Update(a, b) ==
  [k \in DOMAIN a \cup DOMAIN b |-> IF k \in DOMAIN b THEN b[k] ELSE a[k]]

Put(m, k, v) == [j \in DOMAIN m \cup {k} |-> IF j = k THEN v ELSE m[j]]

Reverse(s) == [i \in 1..Len(s) |-> s[Len(s) + 1 - i]]

NoStateFile ==
  [exists |-> FALSE, json_ok |-> FALSE, root_is_dict |-> FALSE,
   schema_version |-> 0, entries_is_dict |-> FALSE, entries |-> EmptyMap]

ZeroCounters ==
  [files_seen |-> 0, files_indexed |-> 0, files_reused |-> 0, files_updated |-> 0,
   files_removed |-> 0, files_unreadable |-> 0, dirs_skipped |-> 0,
   symlinks_skipped |-> 0, bytes_read |-> 0]

NoArgs ==
  [mode |-> "", sharded |-> FALSE, max_files_per_run |-> 0, max_read_bytes |-> 0]

\* manifest.json and run.json without their copies of the run's configuration
\* and counters: both files are written by Finalize from args and counters,
\* which hold these values when the build is done
NoManifest ==
  [exists |-> FALSE, schema_version |-> 0,
   storage |-> [sharded |-> FALSE, files_path |-> <<>>, shard_map |-> EmptyMap]]

NoRunReport ==
  [exists |-> FALSE, status |-> "", stop_reason |-> "", fallback_rebuild |-> FALSE,
   fallback_reason |-> ""]

NoFilesJsonl == [exists |-> FALSE, lines |-> <<>>]

FILES_JSONL == <<"f", "i", "l", "e", "s">> \o JSONL

\* the arguments of index_query.py at their defaults, --limit apart
NoQueryArgs ==
  [path_contains |-> <<>>, ext |-> <<>>, lang |-> <<>>, min_size |-> -1,
   max_size |-> -1, changed_since_epoch |-> -1, scope |-> <<>>, limit |-> 0,
   format |-> "table"]

NoOutput == [format |-> "", count |-> 0, scope |-> <<>>, limit |-> 0, results |-> <<>>]

\* no query has run
NoQuery ==
  [ran |-> FALSE, args |-> NoQueryArgs, exit |-> 0, stderr |-> "", matched |-> 0,
   stdout |-> NoOutput]

\* the counts validate_state starts from
ZeroCounts == [pending |-> 0, in_progress |-> 0, completed |-> 0, blocked |-> 0]

\* what a workstream command returned; errors is the list of messages, each
\* with the row index or lane name it was formatted with
NoResult ==
  [ok |-> TRUE, errors |-> <<>>, counts |-> ZeroCounts, action |-> "",
   lane |-> <<>>, next_step |-> <<>>]

\* no workstream state file, no command run
NoWorkstream ==
  [exists |-> FALSE, is_list |-> TRUE, lanes |-> <<>>, cmd |-> "", exit |-> 0,
   out |-> NoResult]

NoLog ==
  [layout_before |-> "", stat_failed |-> {}, dirs_failed |-> {}, reused |-> {},
   last |-> "", cand |-> <<>>, ev0 |-> 0, rerun |-> FALSE, visited |-> {}]

\* an entry of state.json is kept when its fingerprint has 4 elements (its
\* record is always an object here)
EntryOk(value) == Len(value.fingerprint) = 4

\* load_state without the schema_version test
load_state_any_schema(sf) ==
  IF ~sf.exists THEN [entries |-> EmptyMap, fallback |-> FALSE, reason |-> ""]
  ELSE IF ~sf.json_ok THEN [entries |-> EmptyMap, fallback |-> TRUE, reason |-> "corrupt_state"]
  ELSE IF ~sf.root_is_dict
    THEN [entries |-> EmptyMap, fallback |-> TRUE, reason |-> "invalid_state_shape"]
  ELSE IF ~sf.entries_is_dict
    THEN [entries |-> EmptyMap, fallback |-> TRUE, reason |-> "invalid_state_entries"]
  ELSE [entries |-> [k \in {j \in DOMAIN sf.entries : EntryOk(sf.entries[j])} |->
                       [fingerprint |-> sf.entries[k].fingerprint,
                        record |-> sf.entries[k].record]],
        fallback |-> FALSE, reason |-> ""]

load_state(sf) ==
  IF ~sf.exists THEN [entries |-> EmptyMap, fallback |-> FALSE, reason |-> ""]
  ELSE IF ~sf.json_ok THEN [entries |-> EmptyMap, fallback |-> TRUE, reason |-> "corrupt_state"]
  ELSE IF ~sf.root_is_dict
    THEN [entries |-> EmptyMap, fallback |-> TRUE, reason |-> "invalid_state_shape"]
  ELSE IF sf.schema_version # SCHEMA_VERSION
    THEN [entries |-> EmptyMap, fallback |-> TRUE, reason |-> "state_schema_mismatch"]
  ELSE IF ~sf.entries_is_dict
    THEN [entries |-> EmptyMap, fallback |-> TRUE, reason |-> "invalid_state_entries"]
  ELSE [entries |-> [k \in {j \in DOMAIN sf.entries : EntryOk(sf.entries[j])} |->
                       [fingerprint |-> sf.entries[k].fingerprint,
                        record |-> sf.entries[k].record]],
        fallback |-> FALSE, reason |-> ""]

normalize_excludes(exclude_dir) == DEFAULT_EXCLUDES \cup exclude_dir \cup {INDEX_DIR_NAME}

(***************************************************************************)
(* Traversal                                                               *)
(***************************************************************************)
Dirs == StaticDirs \cup ({Parent(p) : p \in Paths} \ {<<>>})
FilesPresent == {p \in Paths : fs[p].present} \cup StaticFiles

\* the directories of d with the symbolic links taken for directories
ScanDirsFollowingLinks(d) == {x \in Dirs \cup Symlinks : Parent(x) = d}

\* what os.scandir(d) lists, by kind
ScanFiles(d) == {p \in FilesPresent : Parent(p) = d}
ScanDirs(d) == {x \in Dirs : Parent(x) = d}
ScanLinks(d) == {l \in Symlinks : Parent(l) = d}

\* an exclusion test that compares the whole relative path with the names
ExcludedByPath(d) == Str(d) \in normalize_excludes({})

Excluded(d) == Str(Name(d)) \in normalize_excludes({})

\* [int(st.st_size), int(st.st_mtime_ns), int(st.st_dev), int(st.st_ino)]
Fingerprint(p) == <<fs[p].size, fs[p].mtime, 1, Ino(p)>>

Ext(rel_path) == Str(LowerSeq(Suffix(rel_path)))

Min(a, b) == IF a <= b THEN a ELSE b

PROBE == 1024

\* is_probably_text with a probe of 1024 bytes whatever is left of the budget
is_probably_text_fixed_probe(file, ctr, max_read_bytes, open_ok) ==
  LET remaining == max_read_bytes - ctr.bytes_read
      chunk_len == Min(PROBE, file.size)
  IN IF remaining <= 0
       THEN [text_like |-> FALSE, exhausted |-> TRUE, counters |-> ctr]
     ELSE IF ~open_ok
       THEN [text_like |-> FALSE, exhausted |-> FALSE,
             counters |-> [ctr EXCEPT !.files_unreadable = @ + 1]]
     ELSE [text_like |-> (chunk_len = 0) \/ ~file.nul, exhausted |-> FALSE,
           counters |-> [ctr EXCEPT !.bytes_read = @ + chunk_len]]

\* is_probably_text: the answer, whether the byte budget was exhausted, and
\* the counters after the call; open_ok = FALSE is the OSError of path.open
is_probably_text(file, ctr, max_read_bytes, open_ok) ==
  LET remaining == max_read_bytes - ctr.bytes_read
      probe     == Min(PROBE, remaining)
      chunk_len == Min(probe, file.size)
  IN IF remaining <= 0
       THEN [text_like |-> FALSE, exhausted |-> TRUE, counters |-> ctr]
     ELSE IF ~open_ok
       THEN [text_like |-> FALSE, exhausted |-> FALSE,
             counters |-> [ctr EXCEPT !.files_unreadable = @ + 1]]
     ELSE [text_like |-> (chunk_len = 0) \/ ~file.nul, exhausted |-> FALSE,
           counters |-> [ctr EXCEPT !.bytes_read = @ + chunk_len]]

\* a record that carries the number of the run in place of st_mtime_ns
RecordStampedByRun(rel_path, text_like) ==
  [path |-> rel_path, size |-> fs[rel_path].size, mtime_ns |-> builds,
   ext |-> Ext(rel_path), lang |-> guess_language(Ext(rel_path)),
   text_like |-> text_like, top_level |-> top_level_for(rel_path)]

Record(rel_path, text_like) ==
  [path |-> rel_path, size |-> fs[rel_path].size, mtime_ns |-> fs[rel_path].mtime,
   ext |-> Ext(rel_path), lang |-> guess_language(Ext(rel_path)),
   text_like |-> text_like, top_level |-> top_level_for(rel_path)]

(***************************************************************************)
(* State after construction: a tree, an empty index directory, no build    *)
(***************************************************************************)

Idle ==
  /\ pc = "idle"
  /\ args = NoArgs
  /\ previous_entries = EmptyMap
  /\ fallback_rebuild = FALSE
  /\ fallback_reason = ""
  /\ counters = ZeroCounters
  /\ new_entries = EmptyMap
  /\ stop_reason = "completed"
  /\ partial = FALSE
  /\ stack = <<>>
  /\ child_files = <<>>
  /\ prior = NoStateFile
  /\ log = NoLog

\* the build's locals are dropped
\* the trees a behaviour starts from: at most one of the paths is missing
InitTrees == {t \in SUBSET Paths : Cardinality(t) >= Cardinality(Paths) - 1}

Reset ==
  /\ pc' = "idle"
  /\ args' = NoArgs
  /\ previous_entries' = EmptyMap
  /\ fallback_rebuild' = FALSE
  /\ fallback_reason' = ""
  /\ counters' = ZeroCounters
  /\ new_entries' = EmptyMap
  /\ stop_reason' = "completed"
  /\ partial' = FALSE
  /\ stack' = <<>>
  /\ child_files' = <<>>
  /\ prior' = NoStateFile
  /\ log' = NoLog

Init ==
  /\ \E present \in InitTrees :
       fs = [p \in Paths |-> IF p \in present THEN File(2000, 1, HasNul(p, 2000))
                                              ELSE NoFile]
  /\ stateFile = NoStateFile
  /\ manifest = NoManifest
  /\ runReport = NoRunReport
  /\ filesJsonl = NoFilesJsonl
  /\ shards = EmptyMap
  /\ Idle
  /\ builds = 0
  /\ events = 0
  /\ q = NoQuery
  /\ w = NoWorkstream

(***************************************************************************)
(* The environment between two builds                                      *)
(***************************************************************************)
CanEdit == pc \in {"idle", "done"} /\ events < MaxEvents /\ builds < MaxBuilds

\* a file is created or rewritten; a rewrite moves its mtime on
WriteFile(p, size) ==
  /\ CanEdit
  /\ fs' = [fs EXCEPT ![p] = File(size, IF @.present THEN @.mtime + 1 ELSE 1,
                                   HasNul(p, size))]
  /\ events' = events + 1
  /\ Reset
  /\ UNCHANGED <<disk, builds>>
  /\ UNCHANGED <<q, w>>

DeleteFile(p) ==
  /\ CanEdit
  /\ fs[p].present
  /\ fs' = [fs EXCEPT ![p] = NoFile]
  /\ events' = events + 1
  /\ Reset
  /\ UNCHANGED <<disk, builds>>
  /\ UNCHANGED <<q, w>>

\* state.json is deleted or damaged
DamageKinds == {"missing", "corrupt", "shape", "schema", "entries"}

DamageState(kind) ==
  /\ CanEdit
  /\ stateFile.exists
  /\ stateFile' =
       CASE kind = "missing" -> NoStateFile
         [] kind = "corrupt" -> [stateFile EXCEPT !.json_ok = FALSE]
         [] kind = "shape"   -> [stateFile EXCEPT !.root_is_dict = FALSE]
         [] kind = "schema"  -> [stateFile EXCEPT !.schema_version = SCHEMA_VERSION + 1]
         [] kind = "entries" -> [stateFile EXCEPT !.entries_is_dict = FALSE]
  /\ events' = events + 1
  /\ Reset
  /\ UNCHANGED <<fs, manifest, runReport, filesJsonl, shards, builds>>
  /\ UNCHANGED <<q, w>>

\* one entry of state.json loses an element of its fingerprint
DamageEntry(p) ==
  /\ CanEdit
  /\ stateFile.exists
  /\ p \in DOMAIN stateFile.entries
  /\ EntryOk(stateFile.entries[p])
  /\ stateFile' = [stateFile EXCEPT !.entries[p].fingerprint = SubSeq(@, 1, 3)]
  /\ events' = events + 1
  /\ Reset
  /\ UNCHANGED <<fs, manifest, runReport, filesJsonl, shards, builds>>
  /\ UNCHANGED <<q, w>>

(***************************************************************************)
(* index_build.main: start, scan loop                                      *)
(***************************************************************************)
BuildStart(mode, sharded, max_files, max_bytes) ==
  /\ pc \in {"idle", "done"}
  /\ builds < MaxBuilds
  /\ max_files >= 1 /\ max_bytes >= 0
  /\ LET loaded == IF mode = "incremental" THEN load_state(stateFile)
                   ELSE [entries |-> EmptyMap, fallback |-> FALSE, reason |-> ""]
     IN /\ previous_entries' = loaded.entries
        /\ fallback_rebuild' = loaded.fallback
        /\ fallback_reason' = loaded.reason
  /\ args' = [mode |-> mode, sharded |-> sharded, max_files_per_run |-> max_files,
              max_read_bytes |-> max_bytes]
  /\ counters' = ZeroCounters
  /\ new_entries' = EmptyMap
  /\ stop_reason' = "completed"
  /\ partial' = FALSE
  /\ stack' = << <<>> >>
  /\ child_files' = <<>>
  /\ prior' = stateFile
  /\ log' = [NoLog EXCEPT
                !.layout_before =
                  IF ~manifest.exists THEN "none"
                  ELSE IF manifest.storage.sharded THEN "sharded" ELSE "single",
                !.ev0 = events,
                \* the run before ended, met no OSError and no deadline, had
                \* these arguments, and nothing was changed since
                !.rerun = /\ pc = "done"
                          /\ events = log.ev0
                          /\ args = [mode |-> mode, sharded |-> sharded,
                                     max_files_per_run |-> max_files,
                                     max_read_bytes |-> max_bytes]]
  /\ pc' = "scan"
  /\ builds' = builds + 1
  /\ UNCHANGED <<fs, disk, events>>
  /\ UNCHANGED <<q, w>>

\* iter_repo_files pops the next directory
ScanDir(ok) ==
  /\ pc = "scan"
  /\ child_files = <<>>
  /\ stack # <<>>
  /\ LET current == stack[Len(stack)]
         rest    == SubSeq(stack, 1, Len(stack) - 1)
         kept    == {d \in ScanDirs(current) : ~Excluded(d)}
     IN IF ok
        THEN /\ stack' = rest \o Reverse(Sorted(kept))
             /\ child_files' = Sorted(ScanFiles(current))
             /\ counters' = [counters EXCEPT
                  !.symlinks_skipped = @ + Cardinality(ScanLinks(current)),
                  !.dirs_skipped = @ + Cardinality(ScanDirs(current) \ kept)]
             /\ log' = [log EXCEPT !.last = "scandir", !.cand = current,
                                   !.visited = @ \cup {current}]
             /\ events' = events
        ELSE /\ events < MaxEvents
             /\ events' = events + 1
             /\ stack' = rest
             /\ child_files' = <<>>
             /\ counters' = [counters EXCEPT !.dirs_skipped = @ + 1]
             /\ log' = [log EXCEPT !.dirs_failed = @ \cup {current},
                                   !.last = "scandir_failed", !.cand = current,
                                   !.visited = @ \cup {current}]
  /\ UNCHANGED <<fs, disk, pc, args, previous_entries, fallback_rebuild,
                 fallback_reason, new_entries, stop_reason, partial, prior,
                 builds>>
  /\ UNCHANGED <<q, w>>

\* the loop body has a candidate when the generator has a file to yield
HasCandidate == pc = "scan" /\ child_files # <<>>
Candidate == Head(child_files)

\* the break without partial = True
StopNotPartial(reason) ==
  /\ partial' = FALSE
  /\ stop_reason' = reason
  /\ pc' = "final"
  /\ log' = [log EXCEPT !.last = reason, !.cand = Head(child_files)]

\* partial = True; stop_reason = ...; break
Stop(reason) ==
  /\ partial' = TRUE
  /\ stop_reason' = reason
  /\ pc' = "final"
  /\ log' = [log EXCEPT !.last = reason, !.cand = Candidate]

StopFiles ==
  /\ HasCandidate
  /\ counters.files_seen >= args.max_files_per_run
  /\ Stop("max_files_per_run_reached")
  /\ UNCHANGED <<fs, disk, args, previous_entries, fallback_rebuild, fallback_reason,
                 counters, new_entries, stack, child_files, prior, builds, events>>
  /\ UNCHANGED <<q, w>>

\* time.monotonic() >= deadline: the clock is the environment's
StopTime ==
  /\ HasCandidate
  /\ counters.files_seen < args.max_files_per_run
  /\ events < MaxEvents
  /\ events' = events + 1
  /\ Stop("max_seconds_reached")
  /\ UNCHANGED <<fs, disk, args, previous_entries, fallback_rebuild, fallback_reason,
                 counters, new_entries, stack, child_files, prior, builds>>
  /\ UNCHANGED <<q, w>>

\* both checks passed: the candidate is counted and taken from the generator
\* the loop without the test of the file budget
TakenWithoutFileBudget ==
  /\ HasCandidate
  /\ child_files' = Tail(child_files)

Taken ==
  /\ HasCandidate
  /\ counters.files_seen < args.max_files_per_run
  /\ child_files' = Tail(child_files)

\* the loop without counters.files_seen += 1
SeenNotCounted == counters

Seen == [counters EXCEPT !.files_seen = @ + 1]

StatFail ==
  /\ Taken
  /\ events < MaxEvents
  /\ events' = events + 1
  /\ counters' = [Seen EXCEPT !.files_unreadable = @ + 1]
  /\ log' = [log EXCEPT !.stat_failed = @ \cup {Candidate},
                        !.last = "stat_failed", !.cand = Candidate]
  /\ UNCHANGED <<fs, disk, pc, args, previous_entries, fallback_rebuild,
                 fallback_reason, new_entries, stop_reason, partial, stack, prior,
                 builds>>
  /\ UNCHANGED <<q, w>>

\* the mode test of the reuse path inverted
CanReuseInFullMode(rel_path) ==
  /\ args.mode = "full"
  /\ rel_path \in DOMAIN previous_entries
  /\ previous_entries[rel_path].fingerprint = Fingerprint(rel_path)

CanReuse(rel_path) ==
  /\ args.mode = "incremental"
  /\ rel_path \in DOMAIN previous_entries
  /\ previous_entries[rel_path].fingerprint = Fingerprint(rel_path)

Reuse ==
  /\ Taken
  /\ CanReuse(Candidate)
  /\ counters' = [Seen EXCEPT !.files_reused = @ + 1]
  /\ new_entries' = Put(new_entries, Candidate,
                        [fingerprint |-> Fingerprint(Candidate),
                         record |-> previous_entries[Candidate].record])
  /\ log' = [log EXCEPT !.reused = @ \cup {Candidate}, !.last = "reused",
                        !.cand = Candidate]
  /\ UNCHANGED <<fs, disk, pc, args, previous_entries, fallback_rebuild,
                 fallback_reason, stop_reason, partial, stack, prior, builds, events>>
  /\ UNCHANGED <<q, w>>

NeedsProbe(rel_path) == Ext(rel_path) \notin TEXT_EXTS /\ Ext(rel_path) \notin BINARY_EXTS

\* the classification of lines 408-420: text_like, exhausted, counters
Classify(rel_path, open_ok) ==
  IF Ext(rel_path) \in TEXT_EXTS
    THEN [text_like |-> TRUE, exhausted |-> FALSE, counters |-> Seen]
  ELSE IF Ext(rel_path) \in BINARY_EXTS
    THEN [text_like |-> FALSE, exhausted |-> FALSE, counters |-> Seen]
  ELSE is_probably_text(fs[rel_path], Seen, args.max_read_bytes, open_ok)

StopBytes ==
  /\ Taken
  /\ ~CanReuse(Candidate)
  /\ Classify(Candidate, TRUE).exhausted
  /\ counters' = Seen
  /\ Stop("max_read_bytes_reached")
  /\ UNCHANGED <<fs, disk, args, previous_entries, fallback_rebuild, fallback_reason,
                 new_entries, stack, prior, builds, events>>
  /\ UNCHANGED <<q, w>>

\* every file that is not reused counted as new
CountedAsIndexed(ctr, rel_path) == [ctr EXCEPT !.files_indexed = @ + 1]

\* the counter a file that is not reused goes to
Counted(ctr, rel_path) ==
  IF rel_path \in DOMAIN previous_entries
    THEN [ctr EXCEPT !.files_updated = @ + 1]
    ELSE [ctr EXCEPT !.files_indexed = @ + 1]

\* a record is computed and entered as new or updated
Index(open_ok) ==
  /\ Taken
  /\ ~CanReuse(Candidate)
  /\ open_ok \/ (NeedsProbe(Candidate) /\ events < MaxEvents)
  /\ events' = IF open_ok THEN events ELSE events + 1
  /\ LET c == Classify(Candidate, open_ok)
     IN /\ ~c.exhausted
        /\ counters' = Counted(c.counters, Candidate)
        /\ new_entries' = Put(new_entries, Candidate,
                              [fingerprint |-> Fingerprint(Candidate),
                               record |-> Record(Candidate, c.text_like)])
  /\ log' = [log EXCEPT !.last = IF Candidate \in DOMAIN previous_entries
                                 THEN "updated" ELSE "indexed",
                        !.cand = Candidate]
  /\ UNCHANGED <<fs, disk, pc, args, previous_entries, fallback_rebuild,
                 fallback_reason, stop_reason, partial, stack, prior, builds>>
  /\ UNCHANGED <<q, w>>

(***************************************************************************)
(* index_build.main: after the loop                                        *)
(***************************************************************************)
\* final_entries without the merge of a partial run
final_entries_not_merged == new_entries

final_entries ==
  IF partial THEN Update(previous_entries, new_entries) ELSE new_entries

files_removed ==
  IF partial THEN 0
  ELSE Cardinality(DOMAIN previous_entries \ DOMAIN new_entries)

\* the records of final_entries without sorted(): in another order of the keys
records_unsorted ==
  LET keys == Reverse(Sorted(DOMAIN final_entries))
  IN [i \in 1..Len(keys) |-> final_entries[keys[i]].record]

\* the records of final_entries in the order of the sorted keys
records ==
  LET keys == Sorted(DOMAIN final_entries)
  IN [i \in 1..Len(keys) |-> final_entries[keys[i]].record]

changed_top_levels ==
  {final_entries[k].record.top_level :
     k \in {j \in DOMAIN final_entries :
              ~(j \in DOMAIN previous_entries
                /\ previous_entries[j].record = final_entries[j].record)}}
  \cup
  {previous_entries[k].record.top_level :
     k \in DOMAIN previous_entries \ DOMAIN final_entries}

Groups == {records[i].top_level : i \in 1..Len(records)}

grouped(top_level) == SelectSeq(records, LAMBDA r : r.top_level = top_level)

SHARDS == <<"s", "h", "a", "r", "d", "s", "/">>

ShardRel(top_level) == SHARDS \o sanitize_shard_name(top_level)

shard_map == [g \in Groups |-> ShardRel(g)]

\* files: the segment files in shards/ at this point of the loop
should_write(top_level, files) ==
  \/ args.mode = "full"
  \/ fallback_rebuild
  \/ top_level \in changed_top_levels
  \/ Name(ShardRel(top_level)) \notin DOMAIN files

SortByPath(lines) == SortSeq(lines, LAMBDA a, b : StrLess(a.path, b.path))

\* the loop over sorted(grouped.keys()): each write replaces the file
RECURSIVE WriteShards(_, _)
WriteShards(keys, files) ==
  IF keys = <<>> THEN files
  ELSE LET g == Head(keys)
       IN WriteShards(Tail(keys),
            IF should_write(g, files)
            THEN Put(files, Name(ShardRel(g)), SortByPath(grouped(g)))
            ELSE files)

\* shards/ after the write phase without the removal of stale segments
ShardsNotCleaned ==
  IF args.sharded THEN WriteShards(Sorted(Groups), shards) ELSE EmptyMap

\* shards/ after the write phase: in a sharded build the segments written and
\* the stale ones removed, otherwise every segment removed
ShardsAfter ==
  IF args.sharded
  THEN LET written == WriteShards(Sorted(Groups), shards)
           active  == {Name(shard_map[g]) : g \in Groups}
       IN [n \in DOMAIN written \cap active |-> written[n]]
  ELSE EmptyMap

\* files.jsonl left in place by a sharded build
FilesJsonlNotUnlinked ==
  IF args.sharded THEN filesJsonl ELSE [exists |-> TRUE, lines |-> records]

\* files.jsonl after the write phase
FilesJsonlAfter ==
  IF args.sharded THEN NoFilesJsonl ELSE [exists |-> TRUE, lines |-> records]

FinalCounters == [counters EXCEPT !.files_removed = files_removed]

\* manifest.json, state.json and run.json as the build writes them
ManifestAfter ==
  [exists |-> TRUE, schema_version |-> SCHEMA_VERSION,
   storage |-> [sharded |-> args.sharded,
                files_path |-> IF args.sharded THEN <<>> ELSE FILES_JSONL,
                shard_map |-> IF args.sharded THEN shard_map ELSE EmptyMap]]

StateFileAfter ==
  [exists |-> TRUE, json_ok |-> TRUE, root_is_dict |-> TRUE,
   schema_version |-> SCHEMA_VERSION, entries_is_dict |-> TRUE,
   entries |-> final_entries]

RunReportAfter ==
  [exists |-> TRUE, status |-> IF partial THEN "partial" ELSE "ok",
   stop_reason |-> stop_reason, fallback_rebuild |-> fallback_rebuild,
   fallback_reason |-> fallback_reason]

Finalize ==
  /\ pc = "final" \/ (pc = "scan" /\ child_files = <<>> /\ stack = <<>>)
  /\ shards' = ShardsAfter
  /\ filesJsonl' = FilesJsonlAfter
  /\ counters' = FinalCounters
  /\ manifest' = ManifestAfter
  /\ stateFile' = StateFileAfter
  /\ runReport' = RunReportAfter
  /\ pc' = "done"
  /\ log' = [log EXCEPT !.last = "finalize", !.cand = <<>>]
  /\ UNCHANGED <<fs, args, previous_entries, fallback_rebuild, fallback_reason,
                 new_entries, stop_reason, partial, stack, child_files, prior,
                 builds, events>>
  /\ UNCHANGED <<q, w>>

Modes == {"incremental", "full"}

Next ==
  \/ \E p \in Paths, size \in Sizes : WriteFile(p, size)
  \/ \E p \in Paths : DeleteFile(p)
  \/ \E kind \in DamageKinds : DamageState(kind)
  \/ \E p \in Paths : DamageEntry(p)
  \/ \E mode \in Modes, sharded \in BOOLEAN, b \in Budgets :
       BuildStart(mode, sharded, b[1], b[2])
  \/ \E ok \in BOOLEAN : ScanDir(ok)
  \/ StopFiles
  \/ StopTime
  \/ StatFail
  \/ Reuse
  \/ StopBytes
  \/ \E open_ok \in BOOLEAN : Index(open_ok)
  \/ Finalize

Spec == Init /\ [][Next]_vars

\* where a build is: the statement it is at and what the traversal holds
position == <<pc, stack, child_files>>

\* the values the two lists of the traversal can take
Stacks == {<<>>} \cup {<<d>> : d \in Dirs} \cup {<<d, e>> : d \in Dirs, e \in Dirs}
FileLists ==
  {<<>>} \cup {<<f>> : f \in Paths} \cup {<<f, g>> : f \in Paths, g \in Paths}
         \cup {<<f, g, h>> : f \in Paths, g \in Paths, h \in Paths}

\* the steps of a build as moves of its position: a directory is scanned
\* (ScanDir), a file is taken from the list or a budget ends the loop
\* (StatFail, Reuse, Index, StopBytes, StopFiles, StopTime), the artifacts
\* are written (Finalize). While a build runs these steps and no others
\* move its position, and in every state of a build one of them can be taken.
Advance ==
  \/ /\ pc = "scan" /\ child_files = <<>> /\ stack # <<>>
     /\ pc' = "scan"
     /\ stack' \in Stacks
     /\ child_files' \in FileLists
  \/ /\ pc = "scan" /\ child_files # <<>>
     /\ pc' \in {"scan", "final"}
     /\ stack' = stack
     /\ child_files' \in {child_files, Tail(child_files)}
  \/ /\ pc = "final" \/ (pc = "scan" /\ child_files = <<>> /\ stack = <<>>)
     /\ pc' = "done"
     /\ stack' = stack
     /\ child_files' = child_files

\* a build is one sequential process: once started it keeps running, so a
\* build that can advance does
SpecL == Init /\ [][Next]_vars /\ WF_position(Advance)

\* the builds again with byte budgets that end inside a probe: 1500 bytes are
\* one probe of 1024 and one of 476
BBudgets == {<<12000, 1500>>, <<12000, 1024>>, <<2, 4096>>}

NextB ==
  \/ \E p \in Paths, size \in Sizes : WriteFile(p, size)
  \/ \E p \in Paths : DeleteFile(p)
  \/ \E mode \in Modes, sharded \in BOOLEAN, b \in BBudgets :
       BuildStart(mode, sharded, b[1], b[2])
  \/ \E ok \in BOOLEAN : ScanDir(ok)
  \/ StopFiles
  \/ StopTime
  \/ StatFail
  \/ Reuse
  \/ StopBytes
  \/ \E open_ok \in BOOLEAN : Index(open_ok)
  \/ Finalize

SpecB == Init /\ [][NextB]_vars

(***************************************************************************)
(* index_query.py                                                          *)
(***************************************************************************)
DEFAULT_LIMIT == 200

WHITESPACE == {" "}

ALL == <<"a", "l", "l">>

normalize_ext(value) ==
  LET v == LowerSeq(Strip(value, WHITESPACE))
  IN IF v = <<>> THEN ""
     ELSE IF Head(v) = "." THEN Str(v)
     ELSE "." \o Str(v)

\* the record files to read, as paths under the index directory
record_paths(m, scope) ==
  IF m.storage.sharded
  THEN IF scope # ALL
       THEN IF scope \in DOMAIN m.storage.shard_map
            THEN << m.storage.shard_map[scope] >>
            ELSE << >>
       ELSE LET keys == Sorted(DOMAIN m.storage.shard_map)
            IN [i \in 1..Len(keys) |-> m.storage.shard_map[keys[i]]]
  ELSE IF m.storage.files_path # <<>> THEN << m.storage.files_path >>
       ELSE << FILES_JSONL >>

\* a line of a record file that json.dumps of a record did not write: an
\* empty line, text that is not JSON, a JSON value that is not an object, or
\* an object whose size is a string without digits, null, or the float 1e999
LineKinds == {"empty", "invalid_json", "non_object", "size_text", "size_null", "size_huge"}
Malformed(kind) == [raw |-> kind]

\* the lines of one file; a file that is not there has none
Lines(path) ==
  IF path = FILES_JSONL
  THEN IF filesJsonl.exists THEN filesJsonl.lines ELSE << >>
  ELSE IF Parent(path) \o <<"/">> = SHARDS /\ Name(path) \in DOMAIN shards
       THEN shards[Name(path)]
       ELSE << >>

\* json.loads(line) gives an object
IsObject(line) ==
  "raw" \in DOMAIN line => line.raw \in {"size_text", "size_null", "size_huge"}

\* the records of one file: the lines that are not empty, parse, and are objects
iter_jsonl(path) == SelectSeq(Lines(path), IsObject)

\* the exception of int(record.get("size", -1)), "" when there is none:
\* int("abc") is a ValueError, int(None) a TypeError, int(float("inf")) an
\* OverflowError
int_error(record) ==
  IF "raw" \notin DOMAIN record THEN ""
  ELSE IF record.raw = "size_text" THEN "ValueError"
  ELSE IF record.raw = "size_null" THEN "TypeError"
  ELSE "OverflowError"

\* the records the build writes have ext and lang in lower case already;
\* TypeError and ValueError of int() are caught and give False
matches_filters(record, a, ext_filter, scope) ==
  /\ int_error(record) \notin {"TypeError", "ValueError"}
  /\ a.path_contains # <<>> =>
       Contains(LowerSeq(record.path), LowerSeq(a.path_contains))
  /\ ext_filter # "" => record.ext = ext_filter
  /\ a.lang # <<>> => record.lang = Str(LowerSeq(Strip(a.lang, WHITESPACE)))
  /\ a.min_size >= 0 => record.size >= a.min_size
  /\ a.max_size >= 0 => record.size <= a.max_size
  /\ a.changed_since_epoch >= 0 =>
       record.mtime_ns >= a.changed_since_epoch * 1000000000
  /\ scope # ALL => record.top_level = scope

\* a record of the files that makes matches_filters raise what it does not catch
Uncaught(paths) ==
  \E i \in 1..Len(paths) : \E j \in 1..Len(iter_jsonl(paths[i])) :
    int_error(iter_jsonl(paths[i])[j]) = "OverflowError"

\* rows: the matching records of the files, file after file
RECURSIVE CollectRows(_, _, _, _)
CollectRows(paths, a, ext_filter, scope) ==
  IF paths = << >> THEN << >>
  ELSE SelectSeq(iter_jsonl(Head(paths)),
                 LAMBDA record : matches_filters(record, a, ext_filter, scope))
       \o CollectRows(Tail(paths), a, ext_filter, scope)

UsageError(a, message) ==
  [ran |-> TRUE, args |-> a, exit |-> 2, stderr |-> message, matched |-> 0,
   stdout |-> NoOutput]

\* main of index_query.py: the exit status and what goes to the two streams;
\* matched is len(rows) before rows = rows[: args.limit]
query_main(a) ==
  IF a.limit < 1 THEN UsageError(a, "error: --limit must be >= 1")
  ELSE IF a.min_size >= 0 /\ a.max_size >= 0 /\ a.min_size > a.max_size
    THEN UsageError(a, "error: --min-size cannot be greater than --max-size")
  ELSE IF ~manifest.exists /\ DOMAIN shards = {} /\ ~filesJsonl.exists
    THEN UsageError(a, "error: index dir not found")
  ELSE IF ~manifest.exists THEN UsageError(a, "error: manifest not found")
  ELSE
    LET scope == IF Strip(a.scope, WHITESPACE) = <<>> THEN ALL
                 ELSE Strip(a.scope, WHITESPACE)
        ext_filter == normalize_ext(a.ext)
        rows == SortByPath(CollectRows(record_paths(manifest, scope), a,
                                       ext_filter, scope))
        shown == SubSeq(rows, 1, Min(a.limit, Len(rows)))
    IN IF Uncaught(record_paths(manifest, scope))
       THEN [ran |-> TRUE, args |-> a, exit |-> 1,
             stderr |-> "OverflowError: cannot convert float infinity to integer",
             matched |-> 0, stdout |-> NoOutput]
       ELSE
       [ran |-> TRUE, args |-> a, exit |-> 0, stderr |-> "",
        matched |-> Len(rows),
        stdout |-> [format |-> a.format, count |-> Len(shown), scope |-> scope,
                    limit |-> a.limit, results |-> shown]]

\* run when a build has ended and before the tree or state.json change again:
\* those changes leave the files a query reads as the build wrote them
Query(a) ==
  /\ pc = "done"
  /\ ~q.ran
  /\ q' = query_main(a)
  /\ UNCHANGED <<fs, disk, pc, locals, builds, events, w>>

Scopes ==
  {<<>>, ALL, <<"a", " ", "b">>, <<" ", "a", "_", "b">>, ROOT_SENTINEL, <<"b">>}

Limits == {0, 1, DEFAULT_LIMIT}

Formats == {"table", "json"}

Filters ==
  {NoQueryArgs,
   [NoQueryArgs EXCEPT !.ext = <<"P", "Y">>],
   [NoQueryArgs EXCEPT !.lang = <<" ", "p", "y", "t", "h", "o", "n">>],
   [NoQueryArgs EXCEPT !.path_contains = <<"B", "/">>],
   [NoQueryArgs EXCEPT !.min_size = 1, !.max_size = 0],
   [NoQueryArgs EXCEPT !.changed_since_epoch = 1]}

QueryArgs ==
  {[f EXCEPT !.scope = scope, !.limit = limit, !.format = format] :
     f \in Filters, scope \in Scopes, limit \in Limits, format \in Formats}

\* the budgets offered to the build that precedes a query: those of Budgets and
\* --max-read-bytes 0
QBudgets == Budgets \cup {<<12000, 0>>}

\* one build of the tree, then one query of the index it left; a first build
\* finds no stored entry, so the reuse path is not among its steps
NextQ ==
  \/ ~q.ran /\ \E p \in Paths, size \in Sizes : WriteFile(p, size)
  \/ ~q.ran /\ \E p \in Paths : DeleteFile(p)
  \/ ~q.ran /\ \E kind \in DamageKinds : DamageState(kind)
  \/ ~q.ran /\ \E p \in Paths : DamageEntry(p)
  \/ ~q.ran /\ builds = 0 /\ \E mode \in Modes, sharded \in BOOLEAN, b \in QBudgets :
       BuildStart(mode, sharded, b[1], b[2])
  \/ \E ok \in BOOLEAN : ScanDir(ok)
  \/ StopFiles
  \/ StopTime
  \/ StatFail
  \/ StopBytes
  \/ \E open_ok \in BOOLEAN : Index(open_ok)
  \/ Finalize
  \/ \E a \in QueryArgs : Query(a)

SpecQ == Init /\ [][NextQ]_vars

(***************************************************************************)
(* The write phase as other processes see it: the record files are written *)
(* and the files of the other layout deleted first, manifest.json,         *)
(* state.json and run.json after that; a query or a signal can fall in     *)
(* between                                                                 *)
(***************************************************************************)
WriteRecords ==
  /\ pc = "final" \/ (pc = "scan" /\ child_files = <<>> /\ stack = <<>>)
  /\ shards' = ShardsAfter
  /\ filesJsonl' = FilesJsonlAfter
  /\ counters' = FinalCounters
  /\ pc' = "flush"
  /\ log' = [log EXCEPT !.last = "records", !.cand = <<>>]
  /\ UNCHANGED <<fs, manifest, stateFile, runReport, args, previous_entries,
                 fallback_rebuild, fallback_reason, new_entries, stop_reason,
                 partial, stack, child_files, prior, builds, events, q, w>>

WriteMeta ==
  /\ pc = "flush"
  /\ manifest' = ManifestAfter
  /\ stateFile' = StateFileAfter
  /\ runReport' = RunReportAfter
  /\ pc' = "done"
  /\ log' = [log EXCEPT !.last = "finalize"]
  /\ UNCHANGED <<fs, shards, filesJsonl, counters, args, previous_entries,
                 fallback_rebuild, fallback_reason, new_entries, stop_reason,
                 partial, stack, child_files, prior, builds, events, q, w>>

\* the process is ended from outside (a signal): main installs no handler, so
\* nothing more is written
Kill ==
  /\ pc \in {"scan", "final", "flush"}
  /\ pc' = "killed"
  /\ UNCHANGED <<fs, disk, locals, builds, events, q, w>>

\* a query by another process while the build is between the two writes
QueryConcurrent(a) ==
  /\ pc = "flush"
  /\ ~q.ran
  /\ q' = query_main(a)
  /\ UNCHANGED <<fs, disk, pc, locals, builds, events, w>>

ConcurrentQueryArgs ==
  {[NoQueryArgs EXCEPT !.scope = scope, !.limit = DEFAULT_LIMIT, !.format = "json"] :
     scope \in Scopes}

NextC ==
  \/ ~q.ran /\ \E p \in Paths, size \in Sizes : WriteFile(p, size)
  \/ ~q.ran /\ \E p \in Paths : DeleteFile(p)
  \/ ~q.ran /\ \E kind \in DamageKinds : DamageState(kind)
  \/ ~q.ran /\ \E p \in Paths : DamageEntry(p)
  \/ ~q.ran /\ \E mode \in Modes, sharded \in BOOLEAN, b \in Budgets :
       BuildStart(mode, sharded, b[1], b[2])
  \/ \E ok \in BOOLEAN : ScanDir(ok)
  \/ StopFiles
  \/ StopTime
  \/ StatFail
  \/ Reuse
  \/ StopBytes
  \/ \E open_ok \in BOOLEAN : Index(open_ok)
  \/ WriteRecords
  \/ ~q.ran /\ WriteMeta
  \/ ~q.ran /\ Kill
  \/ \E a \in ConcurrentQueryArgs : QueryConcurrent(a)

SpecC == Init /\ [][NextC]_vars

(***************************************************************************)
(* A record file that was edited between the build and the query           *)
(***************************************************************************)
\* the record files that are there
RecordFiles == {FILES_JSONL} \cup {SHARDS \o n : n \in DOMAIN shards}

\* one line of a record file is replaced by a line the build would not write
DamageLine(path, i, kind) ==
  /\ pc = "done"
  /\ ~q.ran
  /\ events < MaxEvents
  /\ i \in 1..Len(Lines(path))
  /\ "raw" \notin DOMAIN Lines(path)[i]
  /\ IF path = FILES_JSONL
       THEN /\ filesJsonl' = [filesJsonl EXCEPT !.lines[i] = Malformed(kind)]
            /\ shards' = shards
       ELSE /\ shards' = [shards EXCEPT ![Name(path)][i] = Malformed(kind)]
            /\ filesJsonl' = filesJsonl
  /\ events' = events + 1
  /\ UNCHANGED <<fs, stateFile, manifest, runReport, pc, locals, builds, q, w>>

MQueryArgs ==
  {[NoQueryArgs EXCEPT !.scope = scope, !.limit = limit, !.min_size = min_size,
                       !.format = "json"] :
     scope \in {<<>>, <<"a", " ", "b">>}, limit \in {1, DEFAULT_LIMIT}, min_size \in {-1, 1}}

NextM ==
  \/ \E mode \in Modes, sharded \in BOOLEAN, b \in Budgets :
       builds = 0 /\ ~q.ran /\ BuildStart(mode, sharded, b[1], b[2])
  \/ \E ok \in BOOLEAN : ScanDir(ok)
  \/ StopFiles
  \/ StopTime
  \/ StatFail
  \/ StopBytes
  \/ \E open_ok \in BOOLEAN : Index(open_ok)
  \/ Finalize
  \/ \E path \in RecordFiles, i \in 1..Cardinality(Paths), kind \in LineKinds :
       DamageLine(path, i, kind)
  \/ \E a \in MQueryArgs : Query(a)

SpecM == Init /\ [][NextM]_vars

(***************************************************************************)
(* workstream_resume.py: the state file of a workstream and the commands    *)
(* init, set, validate and resume. A lane name, a status and a next step    *)
(* are sequences of pieces (a blank or a word), so that strip() has         *)
(* something to remove.                                                     *)
(***************************************************************************)
MaxLanes == 2     \* rows in the lanes list of the state file

ALLOWED_STATUS == {"pending", "in_progress", "completed", "blocked"}

LANE_A == <<"a">>
LANE_B == <<"b">>
LANE_A_PADDED == <<" ", "a">>

\* a row of the lanes list that is a JSON object, and one that is not
Lane(name, status, next_step) ==
  [object |-> TRUE, name |-> name, status |-> status, next_step |-> next_step]
NotAnObject == [object |-> FALSE, name |-> <<>>, status |-> <<>>, next_step |-> <<>>]

\* the index of a row as an f-string prints it
Digit(i) == <<"0", "1", "2", "3", "4", "5", "6", "7", "8", "9">>[i + 1]

\* str(row.get("name") or "").strip() and str(row.get("status") or "").strip()
NameOf(row) == Strip(row.name, WHITESPACE)
StatusOf(row) == Str(Strip(row.status, WHITESPACE))

\* the loop of validate_state over the rows from rows[index] on
RECURSIVE validate_rows(_, _, _)
validate_rows(rows, index, acc) ==
  IF index > Len(rows) THEN acc
  ELSE LET row    == rows[index]
           name   == NameOf(row)
           status == StatusOf(row)
           named  == IF name \in acc.seen_names
                       THEN [acc EXCEPT !.errors =
                               Append(@, <<"duplicate lane name", name>>)]
                       ELSE [acc EXCEPT !.seen_names = @ \cup {name}]
       IN IF ~row.object
            THEN validate_rows(rows, index + 1,
                   [acc EXCEPT !.errors =
                      Append(@, <<"lane row is not an object", <<Digit(index - 1)>>>>)])
          ELSE IF name = <<>>
            THEN validate_rows(rows, index + 1,
                   [acc EXCEPT !.errors =
                      Append(@, <<"lane row is missing a name", <<Digit(index - 1)>>>>)])
          ELSE IF status \notin ALLOWED_STATUS
            THEN validate_rows(rows, index + 1,
                   [named EXCEPT !.errors =
                      Append(@, <<"invalid status for lane", name>>)])
          ELSE validate_rows(rows, index + 1,
                 [named EXCEPT !.counts[status] = @ + 1,
                               !.in_progress_count =
                                  IF status = "in_progress" THEN @ + 1 ELSE @])

\* validate_state without its last test
validate_state_any_in_progress(rows) ==
  LET acc == validate_rows(rows, 1,
               [errors |-> IF rows = <<>> THEN << <<"no lanes defined", <<>>>> >> ELSE <<>>,
                seen_names |-> {}, in_progress_count |-> 0, counts |-> ZeroCounts])
  IN [ok |-> acc.errors = <<>>, errors |-> acc.errors, counts |-> acc.counts]

\* validate_state for a state whose lanes are a list
validate_state(rows) ==
  LET acc    == validate_rows(rows, 1,
                  [errors |-> IF rows = <<>> THEN << <<"no lanes defined", <<>>>> >> ELSE <<>>,
                   seen_names |-> {}, in_progress_count |-> 0, counts |-> ZeroCounts])
      errors == IF acc.in_progress_count > 1
                  THEN Append(acc.errors, <<"more than one lane is in_progress", <<>>>>)
                  ELSE acc.errors
  IN [ok |-> errors = <<>>, errors |-> errors, counts |-> acc.counts]

\* the loop of run_resume: the index of the first in_progress row and of the
\* first pending row (0 for None) and the number of blocked rows
RECURSIVE resume_rows(_, _, _)
resume_rows(rows, index, acc) ==
  IF index > Len(rows) THEN acc
  ELSE LET row    == rows[index]
           status == StatusOf(row)
       IN IF ~row.object THEN resume_rows(rows, index + 1, acc)
          ELSE IF status = "in_progress" /\ acc.in_progress = 0
            THEN resume_rows(rows, index + 1, [acc EXCEPT !.in_progress = index])
          ELSE IF status = "pending" /\ acc.first_pending = 0
            THEN resume_rows(rows, index + 1, [acc EXCEPT !.first_pending = index])
          ELSE IF status = "blocked"
            THEN resume_rows(rows, index + 1, [acc EXCEPT !.blocked = @ + 1])
          ELSE resume_rows(rows, index + 1, acc)

\* run_resume with the pending lane looked at before the one in progress
run_resume_pending_first(rows) ==
  LET v   == validate_state(rows)
      acc == resume_rows(rows, 1, [in_progress |-> 0, first_pending |-> 0, blocked |-> 0])
      out == [ok |-> v.ok, errors |-> v.errors, counts |-> v.counts,
              action |-> "done", lane |-> <<>>, next_step |-> <<>>]
  IN IF ~v.ok THEN [out EXCEPT !.action = "invalid"]
     ELSE IF acc.first_pending # 0
       THEN [out EXCEPT !.action = "start",
                        !.lane = rows[acc.first_pending].name,
                        !.next_step = rows[acc.first_pending].next_step]
     ELSE IF acc.in_progress # 0
       THEN [out EXCEPT !.action = "continue",
                        !.lane = rows[acc.in_progress].name,
                        !.next_step = rows[acc.in_progress].next_step]
     ELSE IF acc.blocked > 0 /\ v.counts.completed < Len(rows)
       THEN [out EXCEPT !.action = "blocked"]
     ELSE out

\* what run_resume returns for a state whose lanes are a list
run_resume(rows) ==
  LET v   == validate_state(rows)
      acc == resume_rows(rows, 1, [in_progress |-> 0, first_pending |-> 0, blocked |-> 0])
      out == [ok |-> v.ok, errors |-> v.errors, counts |-> v.counts,
              action |-> "done", lane |-> <<>>, next_step |-> <<>>]
  IN IF ~v.ok THEN [out EXCEPT !.action = "invalid"]
     ELSE IF acc.in_progress # 0
       THEN [out EXCEPT !.action = "continue",
                        !.lane = rows[acc.in_progress].name,
                        !.next_step = rows[acc.in_progress].next_step]
     ELSE IF acc.first_pending # 0
       THEN [out EXCEPT !.action = "start",
                        !.lane = rows[acc.first_pending].name,
                        !.next_step = rows[acc.first_pending].next_step]
     ELSE IF acc.blocked > 0 /\ v.counts.completed < Len(rows)
       THEN [out EXCEPT !.action = "blocked"]
     ELSE out

\* the names of a list without the repetitions, in the order of first occurrence
RECURSIVE Unique(_, _)
Unique(names, seen) ==
  IF names = <<>> THEN <<>>
  ELSE IF Head(names) \in seen THEN Unique(Tail(names), seen)
  ELSE <<Head(names)>> \o Unique(Tail(names), seen \cup {Head(names)})

\* run_init: the lanes it saves, or the ValueError it raises
run_init(lane, in_progress) ==
  LET stripped         == [i \in 1..Len(lane) |-> Strip(lane[i], WHITESPACE)]
      NonEmpty(x)      == x # <<>>
      lanes_raw        == SelectSeq(stripped, NonEmpty)
      unique           == Unique(lanes_raw, {})
      in_progress_lane == Strip(in_progress, WHITESPACE)
  IN IF lanes_raw = <<>> THEN [raised |-> TRUE, lanes |-> <<>>]
     ELSE IF in_progress_lane # <<>>
             /\ in_progress_lane \notin {unique[i] : i \in 1..Len(unique)}
       THEN [raised |-> TRUE, lanes |-> <<>>]
     ELSE [raised |-> FALSE,
           lanes |-> [i \in 1..Len(unique) |->
                        Lane(unique[i],
                             IF unique[i] = in_progress_lane
                               THEN <<"in_progress">> ELSE <<"pending">>,
                             <<>>)]]

\* lane_map(state)[name] as the index of the row it is: the last object row
\* with that name, 0 when there is none
lane_map(rows, name) ==
  LET hits == {i \in 1..Len(rows) : rows[i].object /\ NameOf(rows[i]) = name}
  IN IF name = <<>> \/ hits = {} THEN 0
     ELSE CHOOSE i \in hits : \A j \in hits : j <= i

\* ensure_lane: a pending row is appended for a name lane_map does not have
ensure_lane(rows, name) ==
  IF lane_map(rows, name) = 0
    THEN Append(rows, Lane(name, <<"pending">>, <<>>))
    ELSE rows

\* parse_assignment for a token with the separator in it: the two sides
\* stripped, and whether ValueError is raised
parse_assignment(token) ==
  LET lane  == Strip(token[1], WHITESPACE)
      value == Strip(token[2], WHITESPACE)
  IN [raised |-> lane = <<>> \/ value = <<>>, lane |-> lane, value |-> value]

\* run_set with at most one --lane-status and one --lane-next, no artifact:
\* the lanes it saves, or the ValueError that leaves the file as it was
run_set(rows, lane_status, lane_next) ==
  LET s      == IF lane_status = <<>> THEN [raised |-> FALSE] ELSE parse_assignment(lane_status[1])
      n      == IF lane_next = <<>> THEN [raised |-> FALSE] ELSE parse_assignment(lane_next[1])
      bad    == \/ s.raised
                \/ (lane_status # <<>> /\ Str(s.value) \notin ALLOWED_STATUS)
                \/ n.raised
      rows1  == IF lane_status = <<>> THEN rows
                ELSE LET r == ensure_lane(rows, s.lane)
                     IN [r EXCEPT ![lane_map(r, s.lane)].status = <<Str(s.value)>>]
      rows2  == IF lane_next = <<>> THEN rows1
                ELSE LET r == ensure_lane(rows1, n.lane)
                     IN [r EXCEPT ![lane_map(r, n.lane)].next_step = n.value]
  IN IF bad THEN [raised |-> TRUE, lanes |-> rows] ELSE [raised |-> FALSE, lanes |-> rows2]

\* load_state raises ValueError (exit code 2) for a file that is missing or
\* whose lanes are not a list
Loadable == w.exists /\ w.is_list

IndexUntouched == UNCHANGED <<fs, disk, pc, locals, builds, events, q>>

\* the rows a state file written by hand is made of
NextStepOf(name) == IF name = LANE_A THEN <<"s">> ELSE <<>>
Rows ==
  {Lane(n, <<s>>, NextStepOf(n)) : n \in {LANE_A, LANE_B, LANE_A_PADDED}, s \in ALLOWED_STATUS}
  \cup {Lane(<<>>, <<"in_progress">>, <<>>),
        Lane(LANE_A, <<"x">>, <<>>),
        Lane(LANE_B, <<" ", "in_progress">>, <<>>),
        NotAnObject}

\* the state file is written by hand, one row more each time
AppendRow(row) ==
  /\ w.is_list
  /\ Len(w.lanes) < MaxLanes
  /\ w' = [NoWorkstream EXCEPT !.exists = TRUE, !.lanes = Append(w.lanes, row)]
  /\ IndexUntouched

\* the state file is written by hand with lanes that are not a list
DamageLanes ==
  /\ w.is_list
  /\ w' = [NoWorkstream EXCEPT !.exists = TRUE, !.is_list = FALSE]
  /\ IndexUntouched

\* init. It overwrites whatever file there is and reads none, so running it
\* on the empty directory reaches every state it can produce
RunInit(lane, in_progress) ==
  /\ ~w.exists
  /\ LET r == run_init(lane, in_progress)
     IN /\ Len(r.lanes) <= MaxLanes
        /\ w' = IF r.raised
                  THEN [w EXCEPT !.cmd = "init", !.exit = 2, !.out = NoResult]
                  ELSE [NoWorkstream EXCEPT !.exists = TRUE, !.lanes = r.lanes,
                                            !.cmd = "init"]
  /\ IndexUntouched

RunSet(lane_status, lane_next) ==
  /\ LET r == run_set(w.lanes, lane_status, lane_next)
     IN IF ~Loadable \/ r.raised
          THEN w' = [w EXCEPT !.cmd = "set", !.exit = 2, !.out = NoResult]
          ELSE /\ Len(r.lanes) <= MaxLanes
               /\ w' = [w EXCEPT !.lanes = r.lanes, !.cmd = "set", !.exit = 0,
                                 !.out = NoResult]
  /\ IndexUntouched

RunValidate ==
  /\ w' = IF ~Loadable THEN [w EXCEPT !.cmd = "validate", !.exit = 2, !.out = NoResult]
          ELSE LET v == validate_state(w.lanes)
               IN [w EXCEPT !.cmd = "validate", !.exit = IF v.ok THEN 0 ELSE 1,
                            !.out = [NoResult EXCEPT !.ok = v.ok, !.errors = v.errors,
                                                     !.counts = v.counts]]
  /\ IndexUntouched

RunResume ==
  /\ w' = IF ~Loadable THEN [w EXCEPT !.cmd = "resume", !.exit = 2, !.out = NoResult]
          ELSE LET r == run_resume(w.lanes)
               IN [w EXCEPT !.cmd = "resume",
                            !.exit = IF ~r.ok \/ r.action \in {"blocked", "invalid"}
                                       THEN 1 ELSE 0,
                            !.out = r]
  /\ IndexUntouched

\* the --lane lists and --in-progress values of init
LaneArgNames == {LANE_A, LANE_B, LANE_A_PADDED, <<" ">>}
LaneArgs ==
  {<<>>} \cup {<<x>> : x \in LaneArgNames}
         \cup {<<x, y>> : x \in LaneArgNames, y \in LaneArgNames}
         \cup {<<LANE_A, LANE_A, LANE_B>>}
InProgressArgs == {<<>>, LANE_A, LANE_B}

\* the --lane-status and --lane-next tokens of set, split at the separator
StatusTokens ==
  {<<LANE_A, <<"in_progress">>>>, <<LANE_B, <<"in_progress">>>>,
   <<LANE_A_PADDED, <<"completed">>>>, <<LANE_B, <<" ", "blocked">>>>,
   <<LANE_A, <<"pending">>>>, <<LANE_A, <<"x">>>>}
NextTokens == {<<LANE_B, <<"t">>>>, <<LANE_A, <<" ">>>>}

NextW ==
  \/ \E row \in Rows : AppendRow(row)
  \/ DamageLanes
  \/ \E lane \in LaneArgs, in_progress \in InProgressArgs : RunInit(lane, in_progress)
  \/ \E ls \in {<<>>} \cup {<<t>> : t \in StatusTokens},
        ln \in {<<>>} \cup {<<t>> : t \in NextTokens} : RunSet(ls, ln)
  \/ RunValidate
  \/ RunResume

\* the index is left out of it: one tree, no build
InitW == Init /\ \A p \in Paths : fs[p].present

SpecW == InitW /\ [][NextW]_vars

(***************************************************************************)
(* Properties of the build                                                 *)
(***************************************************************************)
Done == pc = "done"

\* the entries a reader obtains from a state.json
Stored(sf) == load_state(sf).entries

\* C1. Partial-run safety: after a build that stopped on a budget, in either
\* mode, the entries of state.json are the entries stored before the run
\* updated with the entries produced by this run, so no stored path is lost.
C1_PartialRunSafety ==
  (Done /\ partial) =>
    /\ stateFile.entries = Update(Stored(prior), new_entries)
    /\ DOMAIN Stored(prior) \subseteq DOMAIN stateFile.entries

\* the run met no OSError
NoOSError == log.stat_failed = {} /\ log.dirs_failed = {}

\* C2. Removal detection: after a build that completed its traversal, in either
\* mode, every path stored before the run and absent from the tree is absent
\* from the new state, and files_removed is the number of stored paths that
\* are not in the new state. (Stated for the runs that met no OSError; those
\* that did are the subject of C3.)
C2_RemovalDetection ==
  (Done /\ ~partial /\ NoOSError) =>
    /\ \A p \in DOMAIN Stored(prior) :
         ~fs[p].present => p \notin DOMAIN stateFile.entries
    /\ counters.files_removed =
         Cardinality(DOMAIN Stored(prior) \ DOMAIN stateFile.entries)

\* the directories above a path
Ancestors(p) ==
  LET parts == Split(p, "/")
  IN {Join(SubSeq(parts, 1, k)) : k \in 0..(Len(parts) - 1)}

\* the paths that exist but were not seen because of an OSError of this run
Unseen == {p \in Paths : fs[p].present
                         /\ (p \in log.stat_failed
                             \/ Ancestors(p) \cap log.dirs_failed # {})}

\* C3. A stored entry is removed only by a completed build and only when its
\* path no longer exists: a path that still exists but whose stat failed, or
\* that lies under a directory that could not be read, stays in the state and
\* is not counted in files_removed. (Stated for incremental builds; what a
\* full build does to the stored entries is the subject of C1 and C2.)
C3_RemovedOnlyWhenGone ==
  (Done /\ args.mode = "incremental") =>
    /\ \A p \in DOMAIN Stored(prior) :
         p \notin DOMAIN stateFile.entries => (~partial /\ ~fs[p].present)
    /\ \A p \in Unseen \cap DOMAIN Stored(prior) : p \in DOMAIN stateFile.entries
    /\ counters.files_removed <=
         Cardinality({p \in DOMAIN Stored(prior) : ~fs[p].present})

\* the candidate is one the reuse path is for: incremental mode, a stored
\* entry with the fingerprint the file has now, and this step processes it
ReuseCase ==
  /\ HasCandidate
  /\ args.mode = "incremental"
  /\ Candidate \in DOMAIN Stored(prior)
  /\ Stored(prior)[Candidate].fingerprint = Fingerprint(Candidate)
  /\ counters'.files_seen = counters.files_seen + 1
  /\ Candidate \notin log'.stat_failed

\* the lines of every record file of the index directory
AllLines ==
  {filesJsonl.lines[i] : i \in 1..Len(filesJsonl.lines)}
  \cup UNION {{shards[n][i] : i \in 1..Len(shards[n])} : n \in DOMAIN shards}

\* C4. Incremental reuse: a processed file whose fingerprint equals the one of
\* its stored entry gets the stored record verbatim, is counted in files_reused
\* (and in neither files_indexed nor files_updated) and leaves bytes_read as it
\* was; the state and the record files written by the build carry that record.
C4_IncrementalReuse ==
  /\ [][ReuseCase =>
          /\ new_entries' = Put(new_entries, Candidate,
                                [fingerprint |-> Fingerprint(Candidate),
                                 record |-> Stored(prior)[Candidate].record])
          /\ counters'.files_reused = counters.files_reused + 1
          /\ counters'.files_indexed = counters.files_indexed
          /\ counters'.files_updated = counters.files_updated
          /\ counters'.bytes_read = counters.bytes_read]_vars
  /\ [](Done =>
          \A p \in log.reused :
            /\ p \in DOMAIN stateFile.entries
            /\ stateFile.entries[p].record = Stored(prior)[p].record
            /\ ~args.sharded => Stored(prior)[p].record \in AllLines
            /\ \A l \in AllLines : l.path = p => l = Stored(prior)[p].record)

C4_Witness ==
  /\ Done
  /\ args.mode = "incremental"
  /\ counters.files_reused >= 1
  /\ PN \in log.reused
  /\ counters.files_updated >= 1

StateRecords(g) ==
  LET keys == Sorted({p \in DOMAIN stateFile.entries :
                        stateFile.entries[p].record.top_level = g})
  IN [i \in 1..Len(keys) |-> stateFile.entries[keys[i]].record]

StateGroups == {stateFile.entries[p].record.top_level : p \in DOMAIN stateFile.entries}

\* C6. Shard store agrees with state: after a sharded build, for every
\* top_level group of the persisted state the segment file the manifest's
\* shard_map gives it holds exactly the state's records of that group, in path
\* order.
C6_ShardsAgreeWithState ==
  (Done /\ args.sharded) =>
    \A g \in StateGroups :
      /\ g \in DOMAIN manifest.storage.shard_map
      /\ Name(manifest.storage.shard_map[g]) \in DOMAIN shards
      /\ shards[Name(manifest.storage.shard_map[g])] = StateRecords(g)

StopReasons ==
  {"max_files_per_run_reached", "max_seconds_reached", "max_read_bytes_reached"}

\* C7. Budget exhaustion: a check that finds its budget exhausted ends the scan
\* in that step; the candidate gets no entry and is counted in none of
\* files_indexed, files_updated, files_reused; the run is partial and
\* stop_reason names the budget; a run no check stopped is ok / completed.
C7_BudgetStop ==
  /\ [][(pc = "scan" /\ pc' = "final") =>
          /\ partial'
          /\ stop_reason' \in StopReasons
          /\ new_entries' = new_entries
          /\ counters'.files_indexed = counters.files_indexed
          /\ counters'.files_updated = counters.files_updated
          /\ counters'.files_reused = counters.files_reused
          /\ (stop_reason' = "max_files_per_run_reached")
               <=> (counters.files_seen >= args.max_files_per_run)
          /\ (stop_reason' = "max_read_bytes_reached")
               => /\ NeedsProbe(Candidate)
                  /\ args.max_read_bytes - counters.bytes_read <= 0]_vars
  /\ [][(HasCandidate /\ counters.files_seen >= args.max_files_per_run) =>
          (pc' = "final" /\ counters' = counters)]_vars
  /\ [][(/\ HasCandidate
         /\ counters'.files_seen = counters.files_seen + 1
         /\ Candidate \notin log'.stat_failed
         /\ ~(args.mode = "incremental" /\ Candidate \in DOMAIN Stored(prior)
              /\ Stored(prior)[Candidate].fingerprint = Fingerprint(Candidate))
         /\ NeedsProbe(Candidate)
         /\ args.max_read_bytes - counters.bytes_read <= 0) =>
          (pc' = "final" /\ stop_reason' = "max_read_bytes_reached")]_vars
  /\ [](pc = "scan" => (~partial /\ stop_reason = "completed"))
  /\ [](Done =>
          /\ runReport.status = (IF partial THEN "partial" ELSE "ok")
          /\ runReport.stop_reason = stop_reason
          /\ partial <=> stop_reason \in StopReasons
          /\ ~partial <=> stop_reason = "completed")

C7_Witness ==
  /\ Done
  /\ runReport.status = "partial"
  /\ runReport.stop_reason = "max_read_bytes_reached"
  /\ counters.bytes_read = args.max_read_bytes
  /\ DOMAIN new_entries # {}

\* state.json is there and unusable as a whole
Damaged(sf) ==
  /\ sf.exists
  /\ \/ ~sf.json_ok
     \/ ~sf.root_is_dict
     \/ sf.schema_version # SCHEMA_VERSION
     \/ ~sf.entries_is_dict

BadEntries(sf) == {k \in DOMAIN sf.entries : ~EntryOk(sf.entries[k])}

QScope == IF Strip(q.args.scope, WHITESPACE) = <<>> THEN ALL
          ELSE Strip(q.args.scope, WHITESPACE)

\* C9. A query of a sharded index whose scope is neither 'all' nor a key of
\* the manifest's shard_map is a usage error: a message on standard error and
\* a non-zero exit status, never an empty successful result.
C9_UnknownScopeIsUsageError ==
  (/\ q.ran
   /\ manifest.exists
   /\ manifest.storage.sharded
   /\ QScope # ALL
   /\ QScope \notin DOMAIN manifest.storage.shard_map) =>
    (q.exit # 0 /\ q.stderr # "")

\* C10. In the JSON output of a query, count is the number of records that
\* passed the filters, counted before the rows are cut to --limit.
C10_CountBeforeTruncation ==
  (q.ran /\ q.exit = 0 /\ q.stdout.format = "json") =>
    q.stdout.count = q.matched

\* the records of the files the query resolved for its scope
SourceRecords ==
  LET paths == record_paths(manifest, q.stdout.scope)
  IN UNION {{iter_jsonl(paths[i])[j] : j \in 1..Len(iter_jsonl(paths[i]))} :
              i \in 1..Len(paths)}

\* record r passes every filter of the query that was run
Satisfies(r) ==
  /\ q.args.path_contains # <<>> =>
       Contains(LowerSeq(r.path), LowerSeq(q.args.path_contains))
  /\ q.args.ext # <<>> => r.ext = normalize_ext(q.args.ext)
  /\ q.args.lang # <<>> => r.lang = Str(LowerSeq(Strip(q.args.lang, WHITESPACE)))
  /\ q.args.min_size >= 0 => r.size >= q.args.min_size
  /\ q.args.max_size >= 0 => r.size <= q.args.max_size
  /\ q.args.changed_since_epoch >= 0 =>
       r.mtime_ns >= q.args.changed_since_epoch * 1000000000
  /\ QScope # ALL => r.top_level = QScope

\* C11. Query result: the rows a successful query returns are the first
\* limit elements, in ascending path order, of the set of records of the
\* resolved record files that pass all the filters.
C11_QueryResult ==
  (q.ran /\ q.exit = 0) =>
    LET Match == {r \in SourceRecords : Satisfies(r)}
        res   == q.stdout.results
    IN /\ Len(res) = Min(q.args.limit, Cardinality(Match))
       /\ \A i \in 1..Len(res) : res[i] \in Match
       /\ \A i \in 1..Len(res) : \A j \in 1..Len(res) :
            i < j => StrLess(res[i].path, res[j].path)
       /\ \A r \in Match : (\A i \in 1..Len(res) : res[i] # r) =>
            \A i \in 1..Len(res) : StrLess(res[i].path, r.path)

\* the path fields of the lines ascend strictly
Ascending(lines) ==
  \A i \in 1..Len(lines) : \A j \in 1..Len(lines) :
    i < j => StrLess(lines[i].path, lines[j].path)

\* C12. Determinism of emitted records: in files.jsonl and in every shard
\* segment the records are in strictly ascending order of path, no path twice,
\* whatever the order of the traversal and whether records were computed or
\* reused.
C12_RecordsSortedByPath ==
  /\ filesJsonl.exists => Ascending(filesJsonl.lines)
  /\ \A n \in DOMAIN shards : Ascending(shards[n])

\* all three files in files.jsonl, one of them reused, one computed anew; the
\* traversal delivers 'r' first, which sorts last
C12_Witness ==
  /\ Done
  /\ ~args.sharded
  /\ Len(filesJsonl.lines) = 3
  /\ log.reused # {}
  /\ counters.files_updated >= 1

\* this build repeats the one before it: same arguments, nothing changed in
\* the tree or the index directory since that build began, no OSError and no
\* deadline in either
Repeated == log.rerun /\ events = log.ev0

C14_UsageErrorsFailFast ==
  /\ Done =>
       (args.max_files_per_run >= 1 /\ args.max_read_bytes >= 1)
  /\ (q.ran /\ (\/ q.args.limit < 1
                \/ (q.args.min_size >= 0 /\ q.args.max_size >= 0
                    /\ q.args.min_size > q.args.max_size))) =>
       (q.exit # 0 /\ q.stderr # "" /\ q.stdout = NoOutput)

\* C15. Counter invariant: in every state of a build, and so in the counters
\* written to manifest.json and run.json when it ends,
\* files_indexed + files_updated + files_reused <= files_seen.
C15_CounterInvariant ==
  counters.files_indexed + counters.files_updated + counters.files_reused
    <= counters.files_seen

\* a finished run that indexed, updated and reused one file each
C15_Witness ==
  /\ Done
  /\ counters.files_indexed = 1
  /\ counters.files_updated = 1
  /\ counters.files_reused = 1
  /\ counters.files_seen = 3

\* the files a traversal that meets no OSError yields
TreeFiles == {p \in Paths : fs[p].present}

\* the file budget is below the number of files, and nothing else ended or
\* shortened the run: no OSError, no deadline, no byte budget
ScenarioC ==
  /\ Done
  /\ args.max_files_per_run < Cardinality(TreeFiles)
  /\ NoOSError
  /\ stop_reason \notin {"max_seconds_reached", "max_read_bytes_reached"}

LayoutPresent ==
  /\ ~manifest.storage.sharded => filesJsonl.exists
  /\ manifest.storage.sharded =>
       \A g \in DOMAIN manifest.storage.shard_map :
         Name(manifest.storage.shard_map[g]) \in DOMAIN shards

\* C17. A query that runs while a build writes never gets a manifest that
\* names a layout whose record files the build has deleted or not yet written:
\* what it answers from is the record set of one completed build.
C17_QuerySeesOneBuild ==
  (q.ran /\ q.exit = 0) => LayoutPresent

\* state.json, manifest.json and the record files describe one entry set
DiskConsistent ==
  /\ manifest.exists <=> stateFile.exists
  /\ manifest.exists => LayoutPresent
  /\ AllLines = {stateFile.entries[p].record : p \in DOMAIN stateFile.entries}

\* C18. Cancellation: after a build was stopped from outside at any point,
\* state.json, manifest.json and the record files are mutually consistent:
\* they describe the entry set from before the run or a flushed partial result
\* of it. (Stated for unsharded layouts and behaviours in which nothing else
\* interfered: the segments of a sharded index are the subject of C6.)
C18_CancellationConsistent ==
  (pc = "killed" /\ events = 0 /\ ~args.sharded /\ log.layout_before # "sharded") =>
    DiskConsistent

\* the groups with a path whose record the step adds, changes or removes,
\* relative to the entries the build loaded
ChangedGroups ==
  LET old == Stored(prior)
      new == stateFile'.entries
  IN {new[p].record.top_level :
        p \in {k \in DOMAIN new : k \notin DOMAIN old \/ old[k].record # new[k].record}}
     \cup {old[p].record.top_level : p \in DOMAIN old \ DOMAIN new}

\* C19. Selective rewrite: an incremental sharded build without fallback
\* rewrites the segment of a group only if the group has an added, changed or
\* removed path or its segment file does not exist, so the existing segment of
\* every other group is left as it was.
C19_SelectiveRewrite ==
  [][(/\ pc # "done" /\ pc' = "done"
      /\ args.sharded /\ args.mode = "incremental" /\ ~fallback_rebuild) =>
       \A g \in DOMAIN manifest'.storage.shard_map :
         LET n == Name(manifest'.storage.shard_map[g])
         IN (g \notin ChangedGroups /\ n \in DOMAIN shards) =>
              (n \in DOMAIN shards' /\ shards'[n] = shards[n])]_vars

Eligible ==
  {p \in FilesPresent :
     \A d \in Ancestors(p) \ {<<>>} :
        d \notin Symlinks /\ Str(Name(d)) \notin (DEFAULT_EXCLUDES \cup {INDEX_DIR_NAME})}

\* the files the loop has taken from the traversal so far
Yielded ==
  DOMAIN new_entries \cup log.stat_failed

\* C21: the traversal yields exactly the regular files that sit below neither
\* a symbolic link nor a directory whose bare name is excluded (at any depth,
\* the name of the index directory included), each of them once: whatever is
\* listed, counted in files_seen or given a state entry is such a file, every
\* counted file is a distinct path, and a run that ends ok without an OSError
\* has given an entry to every one of them.
C21_TraversalScope ==
  pc \in {"scan", "final", "done"} =>
    /\ \A i \in 1..Len(child_files) : child_files[i] \in Eligible
    /\ \A i, j \in 1..Len(child_files) : child_files[i] = child_files[j] => i = j
    /\ \A i \in 1..Len(child_files) : child_files[i] \notin Yielded
    /\ Yielded \subseteq Eligible
    /\ counters.files_seen = Cardinality(Yielded)
         + (IF stop_reason = "max_read_bytes_reached" THEN 1 ELSE 0)
    /\ (pc \in {"final", "done"} /\ ~partial /\ NoOSError) => DOMAIN new_entries = Eligible

\* a finished run that passed the symbolic link and both excluded directories
\* and gave an entry to every file outside them
C21_Witness ==
  /\ Done /\ ~partial
  /\ counters.symlinks_skipped = 1
  /\ counters.dirs_skipped = 2
  /\ DOMAIN new_entries = Paths
  /\ StaticFiles \cap DOMAIN new_entries = {}

\* the files of this run's entries by the way they came to them
EntriesReused ==
  {p \in DOMAIN new_entries :
     /\ args.mode = "incremental"
     /\ p \in DOMAIN previous_entries
     /\ previous_entries[p].fingerprint = new_entries[p].fingerprint}
EntriesUpdated ==
  {p \in DOMAIN new_entries :
     /\ p \in DOMAIN previous_entries
     /\ previous_entries[p].fingerprint # new_entries[p].fingerprint}
EntriesIndexed ==
  {p \in DOMAIN new_entries : p \notin DOMAIN previous_entries}

\* the stored paths whose file no longer has the stored fingerprint
Changed ==
  {p \in DOMAIN previous_entries \cap TreeFiles :
     previous_entries[p].fingerprint # Fingerprint(p)}

\* C22: every file that receives a state entry raises exactly one of
\* files_reused (incremental mode, stored fingerprint equal), files_updated
\* (path in the loaded prior state, fingerprint different) and files_indexed
\* (path not in the loaded prior state). So an incremental run that completes
\* over k stored files of which one changed ends with k-1 reused, 1 updated
\* and 0 indexed, and a full build that completes over n files ends with
\* files_indexed = n and files_removed = 0.
C22_CounterClassification ==
  pc \in {"scan", "final", "done"} =>
    /\ counters.files_reused = Cardinality(EntriesReused)
    /\ counters.files_updated = Cardinality(EntriesUpdated)
    /\ counters.files_indexed = Cardinality(EntriesIndexed)
    /\ EntriesReused \cup EntriesUpdated \cup EntriesIndexed = DOMAIN new_entries
    /\ EntriesReused \cap EntriesUpdated = {}
    /\ (/\ Done /\ ~partial /\ NoOSError
        /\ args.mode = "incremental"
        /\ DOMAIN previous_entries = TreeFiles
        /\ Cardinality(Changed) = 1) =>
          /\ counters.files_reused = Cardinality(TreeFiles) - 1
          /\ counters.files_updated = 1
          /\ counters.files_indexed = 0
    /\ (Done /\ ~partial /\ NoOSError /\ args.mode = "full") =>
          /\ counters.files_indexed = Cardinality(TreeFiles)
          /\ counters.files_updated = 0
          /\ counters.files_reused = 0
          /\ counters.files_removed = 0

\* an incremental run over three stored files of which one was rewritten
C22_Witness ==
  /\ Done /\ ~partial /\ NoOSError
  /\ args.mode = "incremental"
  /\ DOMAIN previous_entries = TreeFiles
  /\ Cardinality(TreeFiles) = 3
  /\ Cardinality(Changed) = 1
  /\ counters.files_reused = 2
  /\ counters.files_updated = 1
  /\ counters.files_indexed = 0

\* a command that read the state file and answered
Answered(cmd) == w.cmd = cmd /\ w.exit \in {0, 1}

\* the rows with a given status, in the order of the list
RowsWith(status) ==
  {i \in 1..Len(w.lanes) : w.lanes[i].object /\ StatusOf(w.lanes[i]) = status}
First(S) == CHOOSE i \in S : \A j \in S : i <= j

\* the action, lane and next step the priority rule gives for the state file
Chosen ==
  IF validate_state(w.lanes).errors # <<>>
    THEN [action |-> "invalid", lane |-> <<>>, next_step |-> <<>>]
  ELSE IF RowsWith("in_progress") # {}
    THEN [action |-> "continue",
          lane |-> w.lanes[First(RowsWith("in_progress"))].name,
          next_step |-> w.lanes[First(RowsWith("in_progress"))].next_step]
  ELSE IF RowsWith("pending") # {}
    THEN [action |-> "start",
          lane |-> w.lanes[First(RowsWith("pending"))].name,
          next_step |-> w.lanes[First(RowsWith("pending"))].next_step]
  ELSE IF RowsWith("blocked") # {}
          /\ Cardinality(RowsWith("completed")) < Len(w.lanes)
    THEN [action |-> "blocked", lane |-> <<>>, next_step |-> <<>>]
  ELSE [action |-> "done", lane |-> <<>>, next_step |-> <<>>]

\* C23: run_resume answers by fixed priority over the lanes in list order:
\* 'invalid' when validate_state reports any error; otherwise 'continue' with
\* the first in_progress lane; otherwise 'start' with the first pending lane;
\* otherwise 'blocked' when a lane is blocked and not all are completed;
\* otherwise 'done'. The lane and next step it returns are those of the chosen
\* lane, and ok, errors and counts are those of validate_state.
C23_ResumePriority ==
  Answered("resume") =>
    /\ w.out.action = Chosen.action
    /\ w.out.lane = Chosen.lane
    /\ w.out.next_step = Chosen.next_step
    /\ w.out.ok = validate_state(w.lanes).ok
    /\ w.out.errors = validate_state(w.lanes).errors
    /\ w.out.ok = (w.out.errors = <<>>)

\* resume on a valid state whose second lane is in progress behind a pending one
C23_Witness ==
  /\ Answered("resume")
  /\ w.out.action = "continue"
  /\ Len(w.lanes) = 2
  /\ StatusOf(w.lanes[1]) = "pending"
  /\ w.out.lane = w.lanes[2].name
  /\ w.out.next_step = <<"t">>

\* the rows validate_state takes for lanes: objects with a name
Named == {i \in 1..Len(w.lanes) : w.lanes[i].object /\ NameOf(w.lanes[i]) # <<>>}
NamedWith(status) == {i \in Named : StatusOf(w.lanes[i]) = status}
Messages(errors) == {errors[i][1] : i \in 1..Len(errors)}

\* C24: validate_state answers ok = false with the error 'more than one lane
\* is in_progress' exactly when two or more named lanes have the status
\* in_progress; counts[s] is the number of named lanes with status s, for each
\* allowed status; and the state run_init saves (the lane names without
\* repetition, at most the one named lane in_progress, the others pending)
\* validates ok.
C24_ValidateState ==
  /\ Answered("validate") =>
       /\ ("more than one lane is in_progress" \in Messages(w.out.errors))
            <=> (Cardinality(NamedWith("in_progress")) >= 2)
       /\ (Cardinality(NamedWith("in_progress")) >= 2) => ~w.out.ok
       /\ w.out.ok = (w.out.errors = <<>>)
       /\ \A s \in ALLOWED_STATUS : w.out.counts[s] = Cardinality(NamedWith(s))
  /\ (w.cmd = "init" /\ w.exit = 0) =>
       /\ validate_state(w.lanes).ok
       /\ \A i, j \in 1..Len(w.lanes) : w.lanes[i].name = w.lanes[j].name => i = j
       /\ Cardinality(RowsWith("in_progress")) <= 1
       /\ \A i \in 1..Len(w.lanes) : StatusOf(w.lanes[i]) \in {"in_progress", "pending"}

\* validate on two named lanes that are both in progress
C24_Witness ==
  /\ Answered("validate")
  /\ Cardinality(NamedWith("in_progress")) = 2
  /\ ~w.out.ok
  /\ w.out.counts.in_progress = 2

\* C25: in every state of a build files_seen <= max_files_per_run and
\* bytes_read <= max_read_bytes; one step of the loop reads at most
\* min(1024, max_read_bytes - bytes_read) bytes; and only a file whose
\* extension is in neither table is probed, so a file with a known extension
\* neither changes bytes_read nor ends the run with max_read_bytes_reached.
C25_BudgetBounds ==
  /\ [](pc \in {"scan", "final", "done"} =>
          /\ counters.files_seen <= args.max_files_per_run
          /\ counters.bytes_read <= args.max_read_bytes)
  /\ [][(pc = "scan" /\ pc' \in {"scan", "final"}) =>
          LET read == counters'.bytes_read - counters.bytes_read
          IN /\ read >= 0
             /\ read <= Min(1024, args.max_read_bytes - counters.bytes_read)
             /\ (read > 0 \/ (pc' = "final" /\ stop_reason' = "max_read_bytes_reached")) =>
                   /\ child_files # <<>>
                   /\ Ext(Head(child_files)) \notin (TEXT_EXTS \cup BINARY_EXTS)]_vars

\* a finished run that used up a budget of 1500 bytes with two probes and
\* gave an entry to the file with a known extension as well
C25_Witness ==
  /\ Done /\ ~partial
  /\ args.max_read_bytes = 1500
  /\ counters.bytes_read = 1500
  /\ PM \in DOMAIN new_entries
  /\ counters.files_seen = 3

\* the lines of the files a query reads that the build would not have written
MalformedRead ==
  LET paths == record_paths(manifest, QScope)
  IN {<<i, j>> \in (1..Len(paths)) \X (1..Cardinality(Paths)) :
        j <= Len(Lines(paths[i])) /\ "raw" \in DOMAIN Lines(paths[i])[j]}

\* the rows of the files with the malformed lines deleted
RECURSIVE RowsWithoutMalformed(_, _, _, _)
RowsWithoutMalformed(paths, a, ext_filter, scope) ==
  IF paths = << >> THEN << >>
  ELSE SelectSeq(Lines(Head(paths)),
                 LAMBDA line : "raw" \notin DOMAIN line
                               /\ matches_filters(line, a, ext_filter, scope))
       \o RowsWithoutMalformed(Tail(paths), a, ext_filter, scope)

\* C26: a malformed line of a record file (empty, not JSON, not an object,
\* size or mtime_ns not readable as an integer) is skipped: the query exits 0
\* and returns exactly the rows it would return with that line deleted.
C26_MalformedLinesSkipped ==
  (q.ran /\ q.exit # 2 /\ MalformedRead # {}) =>
    LET rows == SortByPath(RowsWithoutMalformed(record_paths(manifest, QScope), q.args,
                                                normalize_ext(q.args.ext), QScope))
    IN /\ q.exit = 0
       /\ q.stdout.results = SubSeq(rows, 1, Min(q.args.limit, Len(rows)))

\* the records of the persisted state that pass every filter of the query
StateMatch ==
  {r \in {stateFile.entries[p].record : p \in DOMAIN stateFile.entries} : Satisfies(r)}

\* C27: what a query returns depends on the persisted state and the query
\* only, not on the layout: against the sharded and against the unsharded
\* index of a state the rows are the first limit records of the state that
\* pass the filters, in path order; so with scope 'all' and no filter a
\* sharded index gives every path of the state exactly once.
C27_LayoutIndependence ==
  (q.ran /\ q.exit = 0) =>
    LET res == q.stdout.results
    IN /\ Len(res) = Min(q.args.limit, Cardinality(StateMatch))
       /\ \A i \in 1..Len(res) : res[i] \in StateMatch
       /\ \A i, j \in 1..Len(res) : i < j => StrLess(res[i].path, res[j].path)
       /\ \A r \in StateMatch : (\A i \in 1..Len(res) : res[i] # r) =>
            \A i \in 1..Len(res) : StrLess(res[i].path, r.path)

\* C28: distinct top-level groups get distinct segment files, so the segment
\* written for one group is never the file of another: after a sharded build
\* the shard_map of the manifest is one-to-one and every group's segment
\* holds records of that group only.
C28_DistinctSegments ==
  (Done /\ args.sharded) =>
    /\ \A g, h \in DOMAIN manifest.storage.shard_map :
         g # h => manifest.storage.shard_map[g] # manifest.storage.shard_map[h]
    /\ \A g \in DOMAIN manifest.storage.shard_map :
         LET lines == Lines(manifest.storage.shard_map[g])
         IN \A i \in 1..Len(lines) : lines[i].top_level = g

\* C29: partial runs repeated on an unchanged tree make no progress. When an
\* incremental build that stopped with max_files_per_run_reached is run again
\* with the same arguments, the run ends partial with max_files_per_run_reached
\* again, reuses the same N files, indexes and updates nothing, and leaves the
\* entries of the state as they were, so the files behind the first N are
\* never indexed by these runs and the status never becomes ok.
C29_PartialFixedPoint ==
  [][(/\ pc # "done" /\ pc' = "done"
      /\ Repeated /\ args.mode = "incremental"
      /\ runReport.status = "partial"
      /\ runReport.stop_reason = "max_files_per_run_reached") =>
       /\ runReport'.status = "partial"
       /\ runReport'.stop_reason = "max_files_per_run_reached"
       /\ counters'.files_indexed = 0
       /\ counters'.files_updated = 0
       /\ counters'.files_reused = args.max_files_per_run
       /\ stateFile'.entries = stateFile.entries]_vars

\* the second of two incremental builds with a budget of one file over a tree
\* of three: one file reused, two without an entry
C29_Witness ==
  /\ Done
  /\ Repeated /\ args.mode = "incremental"
  /\ builds = 2
  /\ partial /\ stop_reason = "max_files_per_run_reached"
  /\ counters.files_reused = 1
  /\ Cardinality(TreeFiles) = 3
  /\ Cardinality(DOMAIN stateFile.entries) = 1

\* C30: every build terminates. The traversal scans a directory at most once
\* and never enters a symbolic link, so it ends on any finite tree, whatever
\* the links point at; a build that has started reaches its end, where the
\* outcome is exactly one of ok and partial and manifest.json, state.json and
\* run.json are written.
C30_BuildTerminates ==
  /\ [](\A i \in 1..Len(stack) : stack[i] \notin Symlinks /\ stack[i] \notin log.visited)
  /\ [](\A i, j \in 1..Len(stack) : stack[i] = stack[j] => i = j)
  /\ [](Done =>
          /\ manifest.exists /\ stateFile.exists /\ runReport.exists
          /\ runReport.status \in {"ok", "partial"}
          /\ (runReport.status = "partial") <=> partial
          /\ (runReport.status = "ok") <=> (stop_reason = "completed")
          /\ log.visited \cap Symlinks = {})
  /\ [][(pc = "scan" /\ pc' = "scan" /\ stack' # stack) =>
          /\ stack[Len(stack)] \notin log.visited
          /\ log'.visited = log.visited \cup {stack[Len(stack)]}]_vars
  /\ (pc \in {"scan", "final"}) ~> Done

\* a build that went through the root and both directories, passed the
\* symbolic link, and ended ok with the three files written
C30_Witness ==
  /\ Done
  /\ runReport.status = "ok"
  /\ log.visited = {<<>>, <<"a", " ", "b">>, <<"a", "_", "b">>}
  /\ counters.symlinks_skipped = 1
  /\ manifest.exists /\ stateFile.exists /\ runReport.exists

====
